---- MODULE Spec2Model ----
(***************************************************************************)
(* A model of empirical_lsm: the leave-one-site-out fit/predict driver of  *)
(* scripts/run_model.py with its file cache, and the LagTransform and      *)
(* PandasCleaner transformers of ubermodel/transforms.py.                  *)
(***************************************************************************)
EXTENDS Integers, Sequences, FiniteSets, TLC

VARIABLES
    met_data,    \* site -> meteorological dataset (get_site_data(DATASETS, 'met'))
    flux_data,   \* site -> flux dataset (get_site_data(DATASETS, 'flux'))
    fs,          \* the file system: path -> file content
    dirs,        \* the directories get_sim_nc_path has made
    proc,        \* the running command line: mode, name, sites still to do, file, status
    calls,       \* command lines started so far
    out,         \* the messages the last step printed
    fit_log,     \* the model.fit calls of the last step: variable, X, y
    evaluated,   \* what the last step handed to evaluate_simulation
    last_write,  \* history: (name, site) -> what to_netcdf last wrote for that pair
    overwrote,   \* history: the existing simulation files the last step wrote over
    ret,         \* the last direct call of PLUMBER_fit_predict: arguments, tables, result
    lt,          \* the LagTransform object: attribute name -> value
    lag_fit_seen,\* history: fit has been called on the LagTransform
    lag_call,    \* the last call on the LagTransform: method, X, whether fit came before
    lag_ret,     \* what that call returned or raised
    cl,          \* the PandasCleaner object: attribute name -> value
    cl_call,     \* the last call on the PandasCleaner: method, X and y as they were given
    cl_X,        \* the caller's X after that call
    cl_y         \* the caller's y after that call

drv_vars == <<met_data, flux_data, fs, dirs, proc, calls, out, fit_log, evaluated,
              last_write, overwrote, ret>>

lag_vars == <<lt, lag_fit_seen, lag_call, lag_ret>>

cl_vars == <<cl, cl_call, cl_X, cl_y>>

vars == <<drv_vars, lag_vars, cl_vars>>

----------------------------------------------------------------------------
(* Bounds of the model. *)

NRows == 1       \* time steps in every site dataset
MaxCalls == 2    \* command lines run one after the other

(* pals_utils.constants, imported at run_model.py:29: the benchmark sites   *)
(* and the two variable families (a small sample of each).                  *)
DATASETS == <<"A_B", "B", "C">>
MET_VARS == <<"SWdown", "Tair">>
FLUX_VARS == <<"Qh", "Qle">>

Names == {"m", "m_A"}            \* <name> arguments
BenchmarkNames == {"m"}          \* names with files under data/PALS/benchmarks
SimFiles == {"ext.nc"}           \* <file> arguments (existing simulation files)

NaN == -1                        \* a missing value (what isnull() is true of)

Range(f) == {f[i] : i \in DOMAIN f}
SiteSet == Range(DATASETS)

NoData == [attrs |-> "None"]
NoFile == [kind |-> "absent"]

----------------------------------------------------------------------------
(* Data frames of the driver. A row carries its index (site, time) and one  *)
(* value per variable.                                                      *)

(* pals_xray_to_df(ds, variables, qc): the dataset as a table; with qc the  *)
(* values flagged bad by quality control become missing.                    *)
pals_xray_to_df(ds, variables, qc) ==
    [i \in 1..Len(ds.rows) |->
        [site |-> ds.name, time |-> ds.rows[i].time,
         vals |-> [v \in Range(variables) |->
                      IF qc /\ ~ds.rows[i].qc[v] THEN NaN ELSE ds.rows[i].val[v]]]]

RECURSIVE xray_list_to_df(_, _, _)
xray_list_to_df(ds_list, variables, qc) ==
    IF ds_list = <<>> THEN <<>>
    ELSE pals_xray_to_df(Head(ds_list), variables, qc)
            \o xray_list_to_df(Tail(ds_list), variables, qc)

(* A faulty variant of TrainingDatasets: the held-out site is not filtered out. *)
RECURSIVE AllDatasets(_, _, _)
AllDatasets(data, sites, site) ==
    IF sites = <<>> THEN <<>>
    ELSE <<data[Head(sites)]>> \o AllDatasets(data, Tail(sites), site)

(* [ds for s, ds in data.items() if s != site] *)
RECURSIVE TrainingDatasets(_, _, _)
TrainingDatasets(data, sites, site) ==
    IF sites = <<>> THEN <<>>
    ELSE (IF Head(sites) # site THEN <<data[Head(sites)]>> ELSE <<>>)
            \o TrainingDatasets(data, Tail(sites), site)

Key(row) == <<row.site, row.time>>

(* flux_train[v]: one column of the flux table, as a series *)
Column(df, v) == [i \in 1..Len(df) |-> [site |-> df[i].site, time |-> df[i].time,
                                        val |-> df[i].vals[v]]]

(* A faulty variant of qc_index: only the target column is looked at. *)
qc_index_target_only(met_train, flux_train_v) ==
    {Key(flux_train_v[j]) : j \in {k \in 1..Len(flux_train_v) : flux_train_v[k].val # NaN}}

(* (~pd.concat([met_train, flux_train_v], axis=1).isnull()).apply(all, axis=1): *)
(* the index labels whose joined row has no missing value. A label absent   *)
(* from one of the two tables has missing values on that side.              *)
qc_index(met_train, flux_train_v) ==
    {k \in {Key(met_train[i]) : i \in 1..Len(met_train)} :
        /\ \A i \in 1..Len(met_train) :
              Key(met_train[i]) = k =>
                  \A c \in DOMAIN met_train[i].vals : met_train[i].vals[c] # NaN
        /\ \E j \in 1..Len(flux_train_v) : Key(flux_train_v[j]) = k
        /\ \A j \in 1..Len(flux_train_v) :
              Key(flux_train_v[j]) = k => flux_train_v[j].val # NaN}

(* df[qc_index]: the rows a boolean mask keeps, in the table's order *)
RECURSIVE Mask(_, _)
Mask(df, index) ==
    IF df = <<>> THEN <<>>
    ELSE (IF Key(Head(df)) \in index THEN <<Head(df)>> ELSE <<>>) \o Mask(Tail(df), index)

(* model.fit(X, y) followed by model.predict(met_test): the estimator is    *)
(* supplied from outside; its prediction is a vector with one entry per     *)
(* test row, a function of the model, the training sample and the row.      *)
Predict(model, v, X, y, met_test) ==
    [i \in 1..Len(met_test) |->
        [model |-> model, target |-> v, trained |-> Len(X), at |-> met_test[i].time]]

(* A faulty variant of HasTrainingData: a variable is fitted whatever the sample. *)
AlwaysTrain(index) == TRUE

(* qc_index.sum() > 0 *)
HasTrainingData(index) == Cardinality(index) > 0

(* The loop over flux_vars of PLUMBER_fit_predict. *)
RECURSIVE FitLoop(_, _, _, _, _, _)
FitLoop(model, flux_vars, met_train, met_test, flux_train, acc) ==
    IF flux_vars = <<>> THEN acc
    ELSE LET v == Head(flux_vars)
             flux_train_v == Column(flux_train, v)
             index == qc_index(met_train, flux_train_v)
             X == Mask(met_train, index)
             y == Mask(flux_train_v, index)
         IN  IF HasTrainingData(index)
             THEN FitLoop(model, Tail(flux_vars), met_train, met_test, flux_train,
                      [sim_data_dict |-> acc.sim_data_dict @@
                                            (v :> Predict(model, v, X, y, met_test)),
                       fit_log |-> Append(acc.fit_log, [v |-> v, X |-> X, y |-> y]),
                       out |-> Append(acc.out, <<"Training using complete samples", v,
                                                 ToString(Cardinality(index)),
                                                 ToString(Len(met_train))>>)])
             ELSE FitLoop(model, Tail(flux_vars), met_train, met_test, flux_train,
                      [acc EXCEPT !.out =
                          Append(@, <<"No training data, skipping variable", v>>)])

(* sim_dict_to_xray: the prediction vectors as arrays over (time, y, x),    *)
(* on the coordinates of the held-out site's dataset.                       *)
sim_dict_to_xray(sim_dict, old_ds) ==
    [attrs |-> old_ds.name,
     time |-> [i \in 1..Len(old_ds.rows) |-> old_ds.rows[i].time],
     y |-> <<1>>, x |-> <<1>>,
     data_vars |-> [v \in DOMAIN sim_dict |->
                      [i \in 1..Len(sim_dict[v]) |-> << <<sim_dict[v][i]>> >>]]]

(* A faulty variant of NoneFitted: the run goes on with an empty mapping. *)
NeverQuit(sim_data_dict) == FALSE

(* len(sim_data_dict) < 1, the test before sys.exit() *)
NoneFitted(sim_data_dict) == Cardinality(DOMAIN sim_data_dict) < 1

(* PLUMBER_fit_predict(model, name, site): what it prints, the fits it      *)
(* makes, and either sys.exit() or the simulation it returns.               *)
PLUMBER_fit_predict(model, name, site) ==
    LET met_train == xray_list_to_df(TrainingDatasets(met_data, DATASETS, site),
                                     MET_VARS, TRUE)
        met_test == pals_xray_to_df(met_data[site], MET_VARS, FALSE)
        flux_train == xray_list_to_df(TrainingDatasets(flux_data, DATASETS, site),
                                      FLUX_VARS, TRUE)
        loop == FitLoop(model, FLUX_VARS, met_train, met_test, flux_train,
                        [sim_data_dict |-> <<>>, fit_log |-> <<>>,
                         out |-> <<<<"Loading all data... ">>, <<"Converting... ">>,
                                   <<"Fitting and running">>>>])
    IN  IF NoneFitted(loop.sim_data_dict)
        THEN [exit |-> TRUE, sim_data |-> NoData, fit_log |-> loop.fit_log,
              sim_data_dict |-> loop.sim_data_dict,
              met_train |-> met_train, flux_train |-> flux_train,
              out |-> Append(loop.out, <<"No fluxes successfully fitted, quitting">>)]
        ELSE [exit |-> FALSE,
              sim_data |-> sim_dict_to_xray(loop.sim_data_dict, met_data[site]),
              fit_log |-> loop.fit_log, sim_data_dict |-> loop.sim_data_dict,
              met_train |-> met_train, flux_train |-> flux_train,
              out |-> loop.out]

----------------------------------------------------------------------------
(* The simulation cache and the command line.                               *)

(* A faulty variant of get_sim_nc_path: one directory for every model. *)
flat_sim_nc_path(name, site) == "source/models/sim_data/" \o name \o "_" \o site \o ".nc"

model_path(name) == "source/models/" \o name \o "/sim_data/"

(* get_sim_nc_path(name, site): '{p}{n}_{s}.nc' under the model's directory *)
get_sim_nc_path(name, site) == model_path(name) \o name \o "_" \o site \o ".nc"

(* model_site_rst_file of model_site_rst_write *)
rst_path(name, site) == "source/models/" \o name \o "/" \o name \o "_" \o site \o ".rst"

(* s_file of main_import_benchmark *)
benchmark_path(name, site) ==
    "data/PALS/benchmarks/" \o name \o "/" \o name \o "_" \o site \o "Fluxnet.1.4.nc"

(* os.path.exists(path) *)
Exists(files, path) == path \in DOMAIN files

(* sim_data.to_netcdf(path) and xray.open_dataset(path) *)
to_netcdf(files, path, sim_data) ==
    [p \in DOMAIN files \cup {path} |->
        IF p = path THEN [kind |-> "nc", data |-> sim_data] ELSE files[p]]

open_dataset(files, path) == files[path].data

(* A simulation file that was not made by this program: the <file> of eval, *)
(* a PLUMBER benchmark.                                                     *)
ForeignData(path) ==
    [attrs |-> path, time |-> [i \in 1..NRows |-> i], y |-> <<1>>, x |-> <<1>>,
     data_vars |-> [v \in Range(FLUX_VARS) |-> [i \in 1..NRows |-> << <<path>> >>]]]

(* get_model(name): the estimator registered under the name *)
get_model(name) == [estimator |-> name]

(* evaluate_simulation, diagnostic_plots and model_site_rst_write: the      *)
(* metrics of the simulation against the site's observed fluxes and the     *)
(* report file that holds them (its date is left out).                      *)
evaluate_simulation(sim_data, site, name) == [sim |-> sim_data, obs |-> site, name |-> name]

model_site_rst_write(files, model, name, site, eval_results) ==
    [p \in DOMAIN files \cup {rst_path(name, site)} |->
        IF p = rst_path(name, site)
        THEN [kind |-> "rst", model |-> model, name |-> name, site |-> site,
              eval_text |-> eval_results, plots |-> <<"plots", name, site>>]
        ELSE files[p]]

Args ==
    [mode : {"run"}, name : Names, site : SiteSet \cup {"all"}, file : {"None"}]
    \cup [mode : {"eval"}, name : Names, site : SiteSet \cup {"all"},
          file : SimFiles \cup {"None"}]
    \cup [mode : {"import-benchmark"}, name : Names, site : {"None"}, file : {"None"}]

(* main(args) up to the call of the mode's function: a new process. With    *)
(* site 'all' the file is not passed on (main_eval(name, s)).               *)
Start(args) ==
    /\ proc.status # "running"
    /\ calls < MaxCalls
    /\ calls' = calls + 1
    /\ proc' = [mode |-> args.mode, name |-> args.name,
                queue |-> IF args.site = "all" THEN DATASETS ELSE <<args.site>>,
                sim_file |-> IF args.site = "all" THEN "None" ELSE args.file,
                status |-> "running"]
    /\ out' = <<>>
    /\ fit_log' = <<>>
    /\ evaluated' = NoData
    /\ overwrote' = {}
    /\ UNCHANGED <<met_data, flux_data, fs, dirs, last_write, ret, lag_vars, cl_vars>>

After(queue) == IF Len(queue) > 1 THEN "running" ELSE "done"

(* main_run(model, name, site) for the next site: PLUMBER_fit_predict_eval  *)
(* and model_site_rst_write.                                                *)
RunStep ==
    /\ proc.mode = "run" /\ proc.status = "running"
    /\ LET name == proc.name
           site == Head(proc.queue)
           model == get_model(name)
           nc_path == get_sim_nc_path(name, site)
           fp == PLUMBER_fit_predict(model, name, site)
       IN  /\ dirs' = dirs \cup {model_path(name)}
           /\ overwrote' = {}
           /\ IF Exists(fs, nc_path)
              THEN LET sim_data == open_dataset(fs, nc_path)
                       eval_results == evaluate_simulation(sim_data, site, name)
                   IN  /\ out' = <<<<"already run - loading from", name, site, nc_path>>,
                                   <<"Evaluating data for", name, site>>,
                                   <<"Generating rst file for", name, site>>>>
                       /\ fit_log' = <<>>
                       /\ evaluated' = eval_results
                       /\ fs' = model_site_rst_write(fs, model, name, site, eval_results)
                       /\ proc' = [proc EXCEPT !.queue = Tail(@), !.status = After(proc.queue)]
                       /\ UNCHANGED last_write
              ELSE IF fp.exit
              THEN /\ out' = fp.out
                   /\ fit_log' = fp.fit_log
                   /\ evaluated' = NoData
                   /\ proc' = [proc EXCEPT !.status = "exited"]
                   /\ UNCHANGED <<fs, last_write>>
              ELSE LET eval_results == evaluate_simulation(fp.sim_data, site, name)
                   IN  /\ out' = fp.out \o <<<<"Evaluating data for", name, site>>,
                                             <<"Generating rst file for", name, site>>>>
                       /\ fit_log' = fp.fit_log
                       /\ evaluated' = eval_results
                       /\ fs' = model_site_rst_write(to_netcdf(fs, nc_path, fp.sim_data),
                                                     model, name, site, eval_results)
                       /\ last_write' = [last_write EXCEPT ![<<name, site>>] =
                                            [kind |-> "nc", data |-> fp.sim_data]]
                       /\ proc' = [proc EXCEPT !.queue = Tail(@), !.status = After(proc.queue)]
    /\ UNCHANGED <<met_data, flux_data, calls, ret, lag_vars, cl_vars>>

(* main_eval(name, site, sim_file) for the next site. *)
EvalStep ==
    /\ proc.mode = "eval" /\ proc.status = "running"
    /\ LET name == proc.name
           site == Head(proc.queue)
           nc_path == get_sim_nc_path(name, site)
       IN  /\ dirs' = dirs \cup {model_path(name)}
           /\ fit_log' = <<>>
           /\ IF proc.sim_file = "None" /\ ~Exists(fs, nc_path)
              THEN \* xray.open_dataset(nc_path) raises: no such file
                   /\ out' = <<<<"IOError", nc_path>>>>
                   /\ evaluated' = NoData
                   /\ overwrote' = {}
                   /\ proc' = [proc EXCEPT !.status = "crashed"]
                   /\ UNCHANGED <<fs, last_write>>
              ELSE LET sim_data == IF proc.sim_file # "None"
                                   THEN open_dataset(fs, proc.sim_file)
                                   ELSE open_dataset(fs, nc_path)
                       written == IF proc.sim_file # "None"
                                  THEN to_netcdf(fs, nc_path, sim_data) ELSE fs
                       eval_results == evaluate_simulation(sim_data, site, name)
                   IN  /\ out' = <<<<"Evaluating data for", name, site>>,
                                   <<"Generating rst file for", name, site>>>>
                       /\ evaluated' = eval_results
                       /\ overwrote' = IF proc.sim_file # "None" /\ Exists(fs, nc_path)
                                       THEN {nc_path} ELSE {}
                       /\ fs' = model_site_rst_write(written, "Not generated", name, site,
                                                     eval_results)
                       /\ last_write' = IF proc.sim_file # "None"
                                        THEN [last_write EXCEPT ![<<name, site>>] =
                                                 [kind |-> "nc", data |-> sim_data]]
                                        ELSE last_write
                       /\ proc' = [proc EXCEPT !.queue = Tail(@), !.status = After(proc.queue)]
    /\ UNCHANGED <<met_data, flux_data, calls, ret, lag_vars, cl_vars>>

(* The loop of main_import_benchmark over DATASETS: it stops at the first   *)
(* site whose benchmark file cannot be opened.                              *)
RECURSIVE ImportLoop(_, _, _)
ImportLoop(name, sites, acc) ==
    IF sites = <<>> THEN acc
    ELSE LET s == Head(sites)
             s_file == benchmark_path(name, s)
             nc_path == get_sim_nc_path(name, s)
             printed == Append(acc.out, <<s>>)
         IN  IF ~Exists(acc.fs, s_file)
             THEN [acc EXCEPT !.out = Append(printed, <<"IOError", s_file>>),
                              !.crashed = TRUE]
             ELSE ImportLoop(name, Tail(sites),
                     [fs |-> to_netcdf(acc.fs, nc_path, open_dataset(acc.fs, s_file)),
                      out |-> printed,
                      written |-> acc.written \cup {s},
                      overwrote |-> acc.overwrote \cup
                                       (IF Exists(acc.fs, nc_path) THEN {nc_path} ELSE {}),
                      crashed |-> FALSE])

(* main_import_benchmark(name) *)
ImportStep ==
    /\ proc.mode = "import-benchmark" /\ proc.status = "running"
    /\ LET name == proc.name
           done == ImportLoop(name, DATASETS,
                              [fs |-> fs, out |-> <<<<"Importing data for: ", name>>>>,
                               written |-> {}, overwrote |-> {}, crashed |-> FALSE])
       IN  /\ dirs' = dirs \cup {model_path(name)}
           /\ fs' = done.fs
           /\ out' = done.out
           /\ overwrote' = done.overwrote
           /\ last_write' = [k \in DOMAIN last_write |->
                               IF k[1] = name /\ k[2] \in done.written
                               THEN done.fs[get_sim_nc_path(name, k[2])]
                               ELSE last_write[k]]
           /\ proc' = [proc EXCEPT !.status = IF done.crashed THEN "crashed" ELSE "done"]
    /\ fit_log' = <<>>
    /\ evaluated' = NoData
    /\ UNCHANGED <<met_data, flux_data, calls, ret, lag_vars, cl_vars>>

----------------------------------------------------------------------------
(* ubermodel/transforms.py: data frames of the transformers. A frame has    *)
(* its columns in order, a dtype per column, and rows that carry the time   *)
(* index, the site (an index level or a column, "" when the frame has none) *)
(* and one value per column. Time is counted in units of 30 minutes.        *)

MaxTime == 3      \* time steps a group can have
MaxPeriods == 2   \* the largest lag a LagTransform is built with

Numeric == {"float64", "int64"}

LagSites == <<"A", "B">>
LagColumns == <<"SWdown", "flag", "Tair">>
LagDtypes == [c \in Range(LagColumns) |-> IF c = "flag" THEN "object" ELSE "float64"]

IndexOf(seq, e) == CHOOSE i \in 1..Len(seq) : seq[i] = e

(* The value of a cell: different for every site, time and column. *)
CellValue(site, t, c) == 100 * IndexOf(LagSites, site) + 10 * t + IndexOf(LagColumns, c)

(* The frames given to the transformers: site A has any set of time steps,  *)
(* site B none or all of them (with or without a missing value); the rows   *)
(* are in time order, the sites interleaved; 'site' is an index level, a    *)
(* column (the pos-th) or absent.                                           *)
Frame(site_in, pos, timesA, kindB) ==
    LET slots == [k \in 1..(MaxTime * 2) |->
                    [time |-> ((k - 1) \div 2) + 1, site |-> LagSites[((k - 1) % 2) + 1]]]
        Present(sl) == IF sl.site = "A" THEN sl.time \in timesA ELSE kindB # "none"
        kept == SelectSeq(slots, Present)
    IN  [site_in |-> site_in,
         columns |-> IF site_in = "column"
                     THEN SubSeq(LagColumns, 1, pos - 1) \o <<"site">>
                              \o SubSeq(LagColumns, pos, Len(LagColumns))
                     ELSE LagColumns,
         dtypes |-> IF site_in = "column" THEN LagDtypes @@ ("site" :> "object")
                    ELSE LagDtypes,
         rows |-> [i \in 1..Len(kept) |->
                     [time |-> kept[i].time,
                      site |-> IF site_in = "none" THEN "" ELSE kept[i].site,
                      vals |-> [c \in Range(LagColumns) |->
                                  IF kindB = "hole" /\ kept[i].site = "B"
                                     /\ kept[i].time = 1 /\ c = "SWdown"
                                  THEN NaN
                                  ELSE CellValue(kept[i].site, kept[i].time, c)]]]]

AllFrames == {Frame(site_in, 1, timesA, kindB) :
                 site_in \in {"index", "column", "none"},
                 timesA \in SUBSET (1..MaxTime),
                 kindB \in {"none", "full", "hole"}}

(* The frames given to LagTransform.transform: those with a row. *)
Frames == {X \in AllFrames : Len(X.rows) > 0}

(* The frames a LagTransform is fitted on. *)
FitFrames == {Frame(site_in, 1, timesA, "full") :
                 site_in \in {"index", "column"}, timesA \in {{}, 1..MaxTime}}

(* The frames given to a PandasCleaner. *)
CleanFrames ==
    {Frame("column", pos, timesA, kindB) :
        pos \in 1..(Len(LagColumns) + 1), timesA \in SUBSET (1..MaxTime),
        kindB \in {"none", "full"}}
    \cup {Frame(site_in, 1, timesA, kindB) :
        site_in \in {"index", "none"}, timesA \in SUBSET (1..MaxTime),
        kindB \in {"none", "full"}}

TargetFrames == {Frame(site_in, 2, {1}, "full") : site_in \in {"column", "none"}}

(* df.select_dtypes(include=[np.number]).columns *)
NumericColumns(df) ==
    LET IsNumeric(c) == df.dtypes[c] \in Numeric IN SelectSeq(df.columns, IsNumeric)

RECURSIVE SumSeq(_)
SumSeq(seq) == IF seq = <<>> THEN 0 ELSE Head(seq) + SumSeq(Tail(seq))

(* X.mean(): for every numeric column the sum and the count of its present  *)
(* values (the mean is their quotient).                                     *)
Mean(X) ==
    [c \in Range(NumericColumns(X)) |->
        LET HasValue(r) == r.vals[c] # NaN
            present == SelectSeq(X.rows, HasValue)
        IN  [sum |-> SumSeq([i \in 1..Len(present) |-> present[i].vals[c]]),
             count |-> Len(present)]]

(* df.select_dtypes(include=[np.number]).shift(periods, freq): with a freq  *)
(* the index moves by periods * freq and the values stay in their rows.     *)
shift(rows, numeric, periods, freq) ==
    [i \in 1..Len(rows) |->
        [time |-> rows[i].time + periods * freq,
         vals |-> [c \in Range(numeric) |-> rows[i].vals[c]]]]

Lagged(c) == c \o "_lag"

(* One row of the merge: the left row with the lagged columns of the right  *)
(* row, or with missing values when there is none.                          *)
Joined(left, right, numeric) ==
    [time |-> IF left # <<>> THEN left[1].time ELSE right[1].time,
     site |-> IF left # <<>> THEN left[1].site ELSE "",
     vals |-> IF left # <<>> THEN left[1].vals
              ELSE [c \in {} |-> NaN],
     lag |-> [c \in {Lagged(numeric[k]) : k \in 1..Len(numeric)} |->
                IF right = <<>> THEN NaN
                ELSE right[1].vals[CHOOSE n \in Range(numeric) : Lagged(n) = c]]]

RECURSIVE LeftJoin(_, _, _)
LeftJoin(left_rows, shifted, numeric) ==
    IF left_rows = <<>> THEN <<>>
    ELSE LET l == Head(left_rows)
             SameTime(r) == r.time = l.time
             matches == SelectSeq(shifted, SameTime)
         IN  (IF matches = <<>> THEN <<Joined(<<l>>, <<>>, numeric)>>
              ELSE [k \in 1..Len(matches) |-> Joined(<<l>>, <<matches[k]>>, numeric)])
             \o LeftJoin(Tail(left_rows), shifted, numeric)

(* A faulty variant of merge: how='outer' instead of how='left'. *)
merge_outer(rows, shifted, numeric) ==
    LET Unmatched(r) == \A i \in 1..Len(rows) : rows[i].time # r.time
        extra == SelectSeq(shifted, Unmatched)
    IN  LeftJoin(rows, shifted, numeric)
            \o [k \in 1..Len(extra) |-> Joined(<<>>, <<extra[k]>>, numeric)]

(* pd.merge(df, shifted, how='left', left_index=True, right_index=True) *)
merge(rows, shifted, numeric) == LeftJoin(rows, shifted, numeric)

(* lag_dataframe(df, periods, freq), on the rows of one group *)
lag_dataframe(rows, numeric, periods, freq) ==
    merge(rows, shift(rows, numeric, periods, freq), numeric)

(* A faulty variant of groupby_apply: the frame is lagged as one group. *)
apply_ungrouped(X, numeric, periods, freq) ==
    lag_dataframe(X.rows, numeric, periods, freq)

(* X.groupby('site').apply(lag_dataframe, ...): the groups in key order,    *)
(* each with its rows in the order of X.                                    *)
RECURSIVE GroupLoop(_, _, _, _, _)
GroupLoop(X, sites, numeric, periods, freq) ==
    IF sites = <<>> THEN <<>>
    ELSE LET InGroup(r) == r.site = Head(sites)
         IN  lag_dataframe(SelectSeq(X.rows, InGroup), numeric, periods, freq)
                \o GroupLoop(X, Tail(sites), numeric, periods, freq)

groupby_apply(X, numeric, periods, freq) == GroupLoop(X, LagSites, numeric, periods, freq)

(* The result of apply in the order of X's rows: pandas puts the pieces     *)
(* back in the original order when every piece kept its group's index.      *)
OriginalOrder(X, lagged) ==
    IF \E i \in 1..Len(lagged) : ~\E j \in 1..Len(X.rows) :
            lagged[i].site = X.rows[j].site /\ lagged[i].time = X.rows[j].time
    THEN lagged
    ELSE LET RECURSIVE Pieces(_)
             Pieces(rows) ==
                 IF rows = <<>> THEN <<>>
                 ELSE LET Same(r) == r.site = Head(rows).site /\ r.time = Head(rows).time
                      IN  SelectSeq(lagged, Same) \o Pieces(Tail(rows))
         IN  Pieces(X.rows)

(* A faulty variant of check_is_fitted: nothing is checked. *)
check_nothing(estimator, attributes) == TRUE

(* sklearn's check_is_fitted(self, attributes): every attribute is there *)
check_is_fitted(estimator, attributes) == attributes \subseteq DOMAIN estimator

(* LagTransform.fit(X): the feature counts and the column means *)
LagTransform_fit(self, X) ==
    LET n_features == Len(NumericColumns(X))
    IN  [a \in DOMAIN self \cup {"n_input_features_", "n_output_features_", "X_mean"} |->
            IF a = "n_input_features_" THEN [n |-> n_features]
            ELSE IF a = "n_output_features_" THEN [n |-> 2 * n_features]
            ELSE IF a = "X_mean" THEN Mean(X)
            ELSE self[a]]

NothingReturned == [raised |-> "None", columns |-> <<>>, rows |-> <<>>]

(* LagTransform.transform(X): the possible results. X_lag is bound only in  *)
(* the two branches that find 'site'.                                       *)
LagTransform_transform(self, X) ==
    IF ~check_is_fitted(self, {"n_input_features_", "n_output_features_"})
    THEN {[NothingReturned EXCEPT !.raised = "NotFittedError"]}
    ELSE IF X.site_in \notin {"index", "column"}
    THEN {[NothingReturned EXCEPT !.raised = "UnboundLocalError"]}
    ELSE LET numeric == NumericColumns(X)
             columns == (IF X.site_in = "index" THEN <<"site">> ELSE <<>>)
                            \o X.columns
                            \o [k \in 1..Len(numeric) |-> Lagged(numeric[k])]
             X_lag == groupby_apply(X, numeric, self["_periods"].n, self["_freq"].n)
         IN  {[raised |-> "None", columns |-> columns, rows |-> X_lag],
              [raised |-> "None", columns |-> columns, rows |-> OriginalOrder(X, X_lag)]}

(* LagTransform(periods, freq='30min') *)
LagTransform_init(periods) == ("_periods" :> [n |-> periods]) @@ ("_freq" :> [n |-> 1])

NoCall == [op |-> "none"]

InitLagVars(periods) ==
    /\ lt = LagTransform_init(periods)
    /\ lag_fit_seen = FALSE
    /\ lag_call = NoCall
    /\ lag_ret = NothingReturned

LagFit(X) ==
    /\ lt' = LagTransform_fit(lt, X)
    /\ lag_fit_seen' = TRUE
    /\ lag_call' = [op |-> "fit", X |-> X, after_fit |-> lag_fit_seen]
    /\ lag_ret' = NothingReturned
    /\ UNCHANGED <<drv_vars, cl_vars>>

LagTransformCall(X) ==
    /\ lag_call' = [op |-> "transform", X |-> X, after_fit |-> lag_fit_seen]
    /\ lag_ret' \in LagTransform_transform(lt, X)
    /\ UNCHANGED <<lt, lag_fit_seen>>
    /\ UNCHANGED <<drv_vars, cl_vars>>

----------------------------------------------------------------------------
(* PandasCleaner *)

None == [kind |-> "None"]

(* A faulty variant of pop: the column is read and stays in the frame. *)
get_column(X, column) ==
    [popped |-> [kind |-> "Series",
                 index |-> [i \in 1..Len(X.rows) |-> X.rows[i].time],
                 values |-> [i \in 1..Len(X.rows) |-> X.rows[i].site]],
     rest |-> X]

(* X.pop('site'): the column as a series, and X without it *)
pop(X, column) ==
    LET Other(c) == c # column
    IN  [popped |-> [kind |-> "Series",
                     index |-> [i \in 1..Len(X.rows) |-> X.rows[i].time],
                     values |-> [i \in 1..Len(X.rows) |-> X.rows[i].site]],
         rest |-> [X EXCEPT !.columns = SelectSeq(X.columns, Other),
                            !.dtypes = [c \in DOMAIN X.dtypes \ {column} |-> X.dtypes[c]],
                            !.site_in = "none",
                            !.rows = [i \in 1..Len(X.rows) |->
                                         [X.rows[i] EXCEPT !.site = ""]]]]

(* The four attributes PandasCleaner.fit stores for X (prefix "X") or for   *)
(* y (prefix "y"), and the frame as fit leaves it.                          *)
Gather(prefix, X) ==
    LET has_site == \E k \in 1..Len(X.columns) : X.columns[k] = "site"
        taken == pop(X, "site")
        left == IF has_site THEN taken.rest ELSE X
    IN  [attrs |-> (prefix \o "_sites_" :> (IF has_site THEN taken.popped ELSE None))
                   @@ (prefix \o "_columns_" :> [kind |-> "Index", values |-> left.columns])
                   @@ (prefix \o "_index_" :>
                          [kind |-> "Index",
                           values |-> [i \in 1..Len(left.rows) |->
                                          <<left.rows[i].site, left.rows[i].time>>]])
                   @@ (prefix \o "_col_types_" :>
                          [kind |-> "list",
                           values |-> [k \in 1..Len(left.columns) |->
                                          <<left.columns[k], left.dtypes[left.columns[k]]>>]]),
         frame |-> left]

(* PandasCleaner(remove_NA=True) *)
PandasCleaner_init == ("_remove_NA" :> [kind |-> "bool", values |-> TRUE])

InitCleanVars ==
    /\ cl = PandasCleaner_init
    /\ cl_call = NoCall
    /\ cl_X = None
    /\ cl_y = None

(* PandasCleaner.fit(X, y): attributes of an earlier fit that this one does *)
(* not set stay as they were.                                               *)
CleanerFit(X, y) ==
    LET gx == Gather("X", X)
        gy == Gather("y", y)
        set == IF y = None THEN gx.attrs ELSE gx.attrs @@ gy.attrs
    IN  /\ cl' = set @@ cl
        /\ cl_call' = [op |-> "fit", X |-> X, y |-> y]
        /\ cl_X' = gx.frame
        /\ cl_y' = IF y = None THEN None ELSE gy.frame
        /\ UNCHANGED <<drv_vars, lag_vars>>

(* PandasCleaner.transform(X): pass *)
CleanerTransform(X) ==
    /\ cl_call' = [op |-> "transform", X |-> X, y |-> None]
    /\ cl_X' = X
    /\ cl_y' = None
    /\ UNCHANGED cl
    /\ UNCHANGED <<drv_vars, lag_vars>>

----------------------------------------------------------------------------
(* The datasets: every site has NRows time steps; quality control leaves a  *)
(* row whole ("ok"), or flags one meteorological value ("met"), one flux    *)
(* ("Qh", "Qle") or every flux ("flux").                                    *)

Patterns == {"ok", "met", "Qh", "Qle", "flux"}

MetDataset(site, pat) ==
    [name |-> site,
     rows |-> [i \in 1..NRows |->
                 [time |-> i,
                  val |-> [v \in Range(MET_VARS) |-> i],
                  qc |-> [v \in Range(MET_VARS) |-> ~(pat[i] = "met" /\ v = "Tair")]]]]

FluxDataset(site, pat) ==
    [name |-> site,
     rows |-> [i \in 1..NRows |->
                 [time |-> i,
                  val |-> [v \in Range(FLUX_VARS) |-> i],
                  qc |-> [v \in Range(FLUX_VARS) |->
                            ~(pat[i] = "flux" \/ pat[i] = v)]]]]

ForeignFiles == SimFiles \cup {benchmark_path(n, s) : n \in BenchmarkNames, s \in SiteSet}

NotCalled == [called |-> FALSE]

InitDrvVars ==
    /\ fs = [p \in ForeignFiles |-> [kind |-> "nc", data |-> ForeignData(p)]]
    /\ dirs = {}
    /\ proc = [mode |-> "none", name |-> "none", queue |-> <<>>, sim_file |-> "None",
               status |-> "idle"]
    /\ calls = 0
    /\ out = <<>>
    /\ fit_log = <<>>
    /\ evaluated = NoData
    /\ last_write = [k \in Names \X SiteSet |-> NoFile]
    /\ overwrote = {}
    /\ ret = NotCalled

InitRest == InitDrvVars /\ InitLagVars(1) /\ InitCleanVars

(* The command line, over datasets whose rows are all alike within a site. *)
InitDriver ==
    /\ \E pat \in [SiteSet -> {"ok", "flux"}] :
          /\ met_data = [s \in SiteSet |-> MetDataset(s, [i \in 1..NRows |-> pat[s]])]
          /\ flux_data = [s \in SiteSet |-> FluxDataset(s, [i \in 1..NRows |-> pat[s]])]
    /\ InitRest

NextDriver ==
    \/ \E args \in Args : Start(args)
    \/ RunStep
    \/ EvalStep
    \/ ImportStep

SpecDriver == InitDriver /\ [][NextDriver]_vars

(* PLUMBER_fit_predict on its own, over every quality-control pattern.      *)
InitFit ==
    /\ \E pat \in [SiteSet -> [1..NRows -> Patterns]] :
          /\ met_data = [s \in SiteSet |-> MetDataset(s, pat[s])]
          /\ flux_data = [s \in SiteSet |-> FluxDataset(s, pat[s])]
    /\ InitRest

FitPredictCall(name, site) ==
    /\ ~ret.called
    /\ \E fp \in {PLUMBER_fit_predict(get_model(name), name, site)} :
           /\ out' = fp.out
           /\ fit_log' = fp.fit_log
           /\ ret' = [called |-> TRUE, name |-> name, site |-> site, exit |-> fp.exit,
                      met_train |-> fp.met_train, flux_train |-> fp.flux_train,
                      sim_data_dict |-> fp.sim_data_dict, sim_data |-> fp.sim_data]
    /\ UNCHANGED <<met_data, flux_data, fs, dirs, proc, calls, evaluated, last_write,
                   overwrote, lag_vars, cl_vars>>

NextFit == \E name \in Names, site \in SiteSet : FitPredictCall(name, site)

SpecFit == InitFit /\ [][NextFit]_vars

----------------------------------------------------------------------------
(* The claims about PLUMBER_fit_predict, under SpecFit.                     *)

(* The rows of the datasets that quality control leaves whole for a flux    *)
(* variable, and the variables a held-out site leaves with such a row.      *)
CompleteRow(s, i, v) ==
    /\ \A m \in Range(MET_VARS) : met_data[s].rows[i].qc[m]
    /\ flux_data[s].rows[i].qc[v]

CompleteKeys(site, v) ==
    {<<s, met_data[s].rows[i].time>> : s \in SiteSet \ {site}, i \in 1..NRows}
        \cap {k \in SiteSet \X (1..NRows) : CompleteRow(k[1], k[2], v)}

Trainable(site) == {v \in Range(FLUX_VARS) : CompleteKeys(site, v) # {}}

Keys(df) == {Key(df[i]) : i \in 1..Len(df)}

(* C1: no row of the held-out site is in the meteorological or the flux     *)
(* training table, nor in any X or y handed to model.fit.                   *)
C1_LeaveOneSiteOut ==
    ret.called =>
        /\ \A i \in 1..Len(ret.met_train) : ret.met_train[i].site # ret.site
        /\ \A i \in 1..Len(ret.flux_train) : ret.flux_train[i].site # ret.site
        /\ \A k \in 1..Len(fit_log) :
              /\ \A i \in 1..Len(fit_log[k].X) : fit_log[k].X[i].site # ret.site
              /\ \A i \in 1..Len(fit_log[k].y) : fit_log[k].y[i].site # ret.site

(* A fit was made while the held-out site itself has a complete row.        *)
C1_Witness ==
    /\ ret.called
    /\ fit_log # <<>>
    /\ \E i \in 1..NRows : CompleteRow(ret.site, i, fit_log[1].v)

(* C2: the predicted-output mapping holds exactly the flux variables with   *)
(* at least one complete training row; each of them is fitted once, in      *)
(* order, the others are skipped with a message, and when one variable is   *)
(* trainable the run does not quit and returns exactly those variables.     *)
C2_OnlyTrainableVariables ==
    ret.called =>
        /\ DOMAIN ret.sim_data_dict = Trainable(ret.site)
        /\ {fit_log[k].v : k \in 1..Len(fit_log)} = Trainable(ret.site)
        /\ Len(fit_log) = Cardinality(Trainable(ret.site))
        /\ \A v \in Range(FLUX_VARS) \ Trainable(ret.site) :
              \E i \in 1..Len(out) : out[i] = <<"No training data, skipping variable", v>>
        /\ Trainable(ret.site) # {} =>
              /\ ~ret.exit
              /\ DOMAIN ret.sim_data.data_vars = Trainable(ret.site)

(* One variable has no complete training row and the other has one.         *)
C2_Witness ==
    /\ ret.called
    /\ Trainable(ret.site) = {"Qle"}
    /\ DOMAIN ret.sim_data_dict = {"Qle"}
    /\ ~ret.exit

(* C3: every row handed to model.fit has no missing value in any            *)
(* meteorological column nor in the target, and the rows used are exactly   *)
(* the rows of the joined table whose columns are all non-null, the same    *)
(* rows in X and in y.                                                      *)
C3_FitRowsComplete ==
    ret.called =>
        \A k \in 1..Len(fit_log) :
            LET X == fit_log[k].X
                y == fit_log[k].y
            IN  /\ \A i \in 1..Len(X) : \A c \in DOMAIN X[i].vals : X[i].vals[c] # NaN
                /\ \A i \in 1..Len(y) : y[i].val # NaN
                /\ Len(X) = Len(y)
                /\ \A i \in 1..Len(X) : Key(X[i]) = Key(y[i])
                /\ Keys(X) = CompleteKeys(ret.site, fit_log[k].v)
                /\ Len(X) = Cardinality(Keys(X))

(* A fit whose training table had a row with a present target and a missing *)
(* meteorological value, which the mask dropped.                            *)
C3_Witness ==
    /\ ret.called
    /\ \E k \in 1..Len(fit_log) :
          /\ Len(fit_log[k].X) > 0
          /\ \E i \in 1..Len(ret.met_train) :
                /\ \E c \in DOMAIN ret.met_train[i].vals : ret.met_train[i].vals[c] = NaN
                /\ ret.flux_train[i].vals[fit_log[k].v] # NaN
                /\ Key(ret.met_train[i]) \notin Keys(fit_log[k].X)

----------------------------------------------------------------------------
(* The claims about the cache and the command line, under SpecDriver.       *)

RunCall == proc.mode = "run" /\ proc.status = "running" /\ proc' # proc

(* C4: a call of PLUMBER_fit_predict_eval that finds a file at the path of  *)
(* (name, site) evaluates exactly what was last persisted for that name and *)
(* site, makes no fit and leaves the file as it is.                         *)
C4_CacheHitUsesPersisted ==
    [][(RunCall /\ Exists(fs, get_sim_nc_path(proc.name, Head(proc.queue)))) =>
          LET key == <<proc.name, Head(proc.queue)>>
              nc_path == get_sim_nc_path(proc.name, Head(proc.queue))
          IN  /\ last_write[key] # NoFile
              /\ fs[nc_path] = last_write[key]
              /\ evaluated' = evaluate_simulation(last_write[key].data, key[2], key[1])
              /\ fit_log' = <<>>
              /\ fs'[nc_path] = fs[nc_path]
              /\ last_write' = last_write]_vars

(* A second run found the simulation that an earlier run had computed. *)
C4_Witness ==
    /\ proc.mode = "run"
    /\ calls = 2
    /\ Len(out) > 0 /\ out[1][1] = "already run - loading from"
    /\ evaluated # NoData
    /\ evaluated.sim.attrs = evaluated.obs
    /\ fit_log = <<>>

(* C5: when no flux variable can be fitted the process ends there: nothing  *)
(* is written, nothing is evaluated, the sites still to do stay undone, and *)
(* only a new command line can follow.                                      *)
C5_NoneFittedTerminates ==
    [][/\ (RunCall /\ ~Exists(fs, get_sim_nc_path(proc.name, Head(proc.queue)))
                   /\ Trainable(Head(proc.queue)) = {}) =>
              /\ proc'.status = "exited"
              /\ proc'.queue = proc.queue
              /\ fs' = fs
              /\ last_write' = last_write
              /\ evaluated' = NoData
              /\ fit_log' = <<>>
       /\ proc.status = "exited" => calls' = calls + 1]_vars

(* Run over all sites, the process quit at the second site. *)
C5_Witness ==
    /\ proc.status = "exited"
    /\ Len(proc.queue) = 2
    /\ Exists(fs, get_sim_nc_path(proc.name, DATASETS[1]))
    /\ ~Exists(fs, get_sim_nc_path(proc.name, DATASETS[2]))
    /\ ~Exists(fs, rst_path(proc.name, DATASETS[2]))

(* C10: whenever a step writes over an existing cached simulation, it       *)
(* prints a message about it (the progress message of the import counted    *)
(* as one).                                                                 *)
C10_OverwriteIsLogged ==
    overwrote # {} =>
        \E i \in 1..Len(out) :
            out[i][1] \in {"WARNING! over writes existing sim!", "Importing data for: "}

----------------------------------------------------------------------------
(* LagTransform on its own.                                                 *)

FixedData ==
    /\ met_data = [s \in SiteSet |-> MetDataset(s, [i \in 1..NRows |-> "ok"])]
    /\ flux_data = [s \in SiteSet |-> FluxDataset(s, [i \in 1..NRows |-> "ok"])]
    /\ InitDrvVars

InitLag == FixedData /\ InitCleanVars /\ \E periods \in 1..MaxPeriods : InitLagVars(periods)

NextLag ==
    \/ \E X \in FitFrames : LagFit(X)
    \/ \E X \in Frames : LagTransformCall(X)

SpecLag == InitLag /\ [][NextLag]_vars

(* PandasCleaner on its own.                                                *)

InitClean == FixedData /\ InitLagVars(1) /\ InitCleanVars

NextClean ==
    \/ \E X \in CleanFrames, y \in TargetFrames \cup {None} : CleanerFit(X, y)
    \/ \E X \in TargetFrames : CleanerTransform(X)

SpecClean == InitClean /\ [][NextClean]_vars

----------------------------------------------------------------------------
(* The claims about LagTransform, under SpecLag.                            *)

(* A transform call that got past the fitted check on a frame that has a   *)
(* 'site' key.                                                              *)
Lagging ==
    /\ lag_call.op = "transform"
    /\ lag_call.after_fit
    /\ lag_call.X.site_in \in {"index", "column"}

Offset == lt["_periods"].n * lt["_freq"].n

NumericOf(X) == {c \in Range(X.columns) : X.dtypes[c] \in Numeric}

GroupTimes(X, site) == {X.rows[i].time : i \in {k \in 1..Len(X.rows) : X.rows[k].site = site}}

ValueAt(X, site, t, c) ==
    LET i == CHOOSE k \in 1..Len(X.rows) : X.rows[k].site = site /\ X.rows[k].time = t
    IN  X.rows[i].vals[c]

GroupOf(rows, site) == LET InGroup(r) == r.site = site IN SelectSeq(rows, InGroup)

Max(S) == CHOOSE m \in S : \A n \in S : n <= m
Min(S) == CHOOSE m \in S : \A n \in S : m <= n

EvenlySpaced(X, site) ==
    GroupTimes(X, site) # {} =>
        GroupTimes(X, site) = Min(GroupTimes(X, site))..Max(GroupTimes(X, site))

(* The lagged columns are the numeric columns of X, suffixed. *)
LagColumnsExact ==
    /\ lag_ret.raised = "None"
    /\ \A i \in 1..Len(lag_ret.rows) :
          DOMAIN lag_ret.rows[i].lag = {c \o "_lag" : c \in NumericOf(lag_call.X)}
    /\ {lag_ret.columns[k] : k \in 1..Len(lag_ret.columns)}
          = Range(lag_call.X.columns) \cup {"site"}
               \cup {c \o "_lag" : c \in NumericOf(lag_call.X)}

(* A lagged value is the column's value periods * freq earlier in the same  *)
(* group, and there is none when the group has no row at that time.         *)
LagValuesFromEarlier ==
    \A i \in 1..Len(lag_ret.rows) : \A c \in NumericOf(lag_call.X) :
        LET r == lag_ret.rows[i]
        IN  r.lag[c \o "_lag"] =
               IF r.time - Offset \in GroupTimes(lag_call.X, r.site)
               THEN ValueAt(lag_call.X, r.site, r.time - Offset, c)
               ELSE NaN

(* The first `periods` rows of the group have no value in a lagged column.  *)
FirstRowsEmpty(site) ==
    LET g == GroupOf(lag_ret.rows, site)
    IN  \A k \in 1..Len(g) : k <= lt["_periods"].n =>
            \A c \in NumericOf(lag_call.X) : g[k].lag[c \o "_lag"] = NaN

(* The later rows of the group have the value of the row `periods` rows     *)
(* before them.                                                             *)
LaterRowsFromEarlierRows(site) ==
    LET g == GroupOf(lag_ret.rows, site)
    IN  \A k \in 1..Len(g) : k > lt["_periods"].n =>
            \A c \in NumericOf(lag_call.X) :
                g[k].lag[c \o "_lag"] = g[k - lt["_periods"].n].vals[c]

C8_UnfittedFails ==
    lag_call.op = "transform" =>
        /\ ~lag_call.after_fit =>
              /\ lag_ret.raised = "NotFittedError"
              /\ lag_ret.rows = <<>>
              /\ lag_ret.columns = <<>>
        /\ lag_call.after_fit => lag_ret.raised # "NotFittedError"

(* transform was called on a frame with rows before any fit. *)
C8_Witness ==
    /\ lag_call.op = "transform"
    /\ ~lag_call.after_fit
    /\ Len(lag_call.X.rows) > 0
    /\ lag_call.X.site_in = "index"
    /\ lag_ret.raised = "NotFittedError"

----------------------------------------------------------------------------
(* The claim about PandasCleaner, under SpecClean.                          *)

(* C9: after fit on a frame with a 'site' column, X_columns_ is the column  *)
(* list without 'site' and X_sites_ holds the column's values in row order; *)
(* without such a column X_sites_ is None and X_columns_ is the full list.  *)
C9_SitePopped ==
    cl_call.op = "fit" =>
        LET X == cl_call.X
            NotSite(c) == c # "site"
        IN  IF "site" \in Range(X.columns)
            THEN /\ "site" \notin Range(cl["X_columns_"].values)
                 /\ cl["X_columns_"].values = SelectSeq(X.columns, NotSite)
                 /\ cl["X_sites_"].kind = "Series"
                 /\ cl["X_sites_"].values = [i \in 1..Len(X.rows) |-> X.rows[i].site]
            ELSE /\ cl["X_sites_"] = None
                 /\ cl["X_columns_"].values = X.columns

(* fit on a frame whose 'site' column is not the first and whose rows       *)
(* alternate between two sites.                                             *)
C9_Witness ==
    /\ cl_call.op = "fit"
    /\ Len(cl_call.X.columns) = 4
    /\ cl_call.X.columns[3] = "site"
    /\ Len(cl_call.X.rows) >= 4
    /\ cl["X_sites_"].kind = "Series"
    /\ cl["X_sites_"].values[1] = "A" /\ cl["X_sites_"].values[2] = "B"

====
